---------------------------- MODULE Spec2Model ----------------------------
(***************************************************************************)
(* esp32-smartcube.ino: an ESP32 sketch that connects to a Bluetooth LE    *)
(* puzzle cube, decodes its 20-byte notifications (optional additive       *)
(* de-obfuscation, piece state, last move) and pulses a relay pin when the *)
(* decoded piece state is the solved pattern.                              *)
(*                                                                         *)
(* Buffers are functions over 0..MaxLen-1 so that indices are the source's *)
(* indices.  The first `length` cells are the notification's bytes; cells  *)
(* from `length` on are whatever memory follows the buffer.                *)
(***************************************************************************)
EXTENDS Integers, Sequences, FiniteSets

(***************************************************************************)
(* Bounds of the model.                                                    *)
(***************************************************************************)
\* Shortest and longest notification delivered to the callback.
MinLen == 19
MaxLen == 21
\* Number of piece states, besides the solved one and its bit flips, that
\* the cube reports.
NumSamples == 2

(***************************************************************************)
(* Program constants.                                                      *)
(***************************************************************************)
decryptionKey ==
  << 176, 81, 104, 224, 86, 137, 237, 119, 38, 26, 193, 161,
     210, 126, 150, 81, 93, 13, 236, 249, 89, 235, 88, 24,
     113, 81, 214, 131, 130, 199, 2, 169, 39, 165, 171, 41 >>

solution ==
  << 18, 52, 86, 120, 51, 51, 51, 51, 18, 52, 86, 120, 154, 188, 0, 0 >>

faceNames == << "Front", "Bottom", "Right", "Top", "Left", "Back" >>

\* The marker value of byte 18 (0xA7) of an obfuscated notification.
EncryptedMarker == 167
\* Number of bytes the de-obfuscation loop rewrites.
DecryptLen == 20
\* Number of leading bytes that hold the piece state.
StateLen == 16

Byte == 0..255
Cells == 0..(MaxLen - 1)

VARIABLES
  sys,            \* "boot" (before setup), "loop", "delay", "panic"
  relayPin,       \* "UNSET", "LOW", "HIGH"
  deviceFound,    \* global deviceFound
  connected,      \* global connected
  registered,     \* notifyCallback is registered on the live link
  cubeGatt,       \* what the cube's GATT server offers
  hpc,            \* notifyCallback: "idle", "pulse" (inside delay(100)),
                  \* "return" (about to return) or "faulted"
  relayWrites,    \* what the running call has written to relayPin
  again,          \* the last call was handed the buffer of the call before
  sent,           \* the piece state the cube obfuscated to make the buffer
  arg,            \* the buffer as handed to the last call
  length,         \* the length handed to the last call
  pData,          \* the buffer as the last call left it
  isEncrypted,    \* local isEncrypted of the last call
  keyReads,       \* indices of decryptionKey the last call read
  faceIndex,      \* index into faceNames the last call used
  serial,         \* what the last call wrote to Serial, and its memcmp
  prev            \* serial of the call before, when `again`

vars ==
  << sys, relayPin, deviceFound, connected, registered, cubeGatt, hpc,
     relayWrites, again, sent, arg, length, pData, isEncrypted, keyReads,
     faceIndex, serial, prev >>

connVars == << deviceFound, connected, registered >>
callVars ==
  << again, sent, arg, length, pData, isEncrypted, keyReads,
     faceIndex, serial, prev >>

(***************************************************************************)
(* Helper functions of the sketch.                                         *)
(***************************************************************************)
\* getNibble without the mask of the low nibble.
getNibble_NoMask(val, i) ==
  IF i % 2 = 1 THEN val[i \div 2] ELSE val[i \div 2] \div 16

getNibble(val, i) ==
  IF i % 2 = 1 THEN val[i \div 2] % 16 ELSE val[i \div 2] \div 16

\* decryptionKey[i] for a 0-based i.  C8_KeyReadsInBounds shows that no call
\* reads past the table; the value given for such a read is never used.
KeyAt(i) ==
  IF i \in 0..(Len(decryptionKey) - 1) THEN decryptionKey[i + 1] ELSE 0

\* The marker looked for one byte too early.
IsEncrypted_Byte17(buf) == buf[17] = EncryptedMarker

IsEncrypted(buf) == buf[18] = EncryptedMarker

offset1(buf) == getNibble(buf, 38)
offset2(buf) == getNibble(buf, 39)

\* The loop adding the window at offset1 twice.
Decrypt_Offset1Twice(buf) ==
  LET o1 == offset1(buf)
  IN  [i \in Cells |->
         IF i < DecryptLen
           THEN (buf[i] + KeyAt(o1 + i) + KeyAt(o1 + i)) % 256
           ELSE buf[i]]

\* The loop of lines 125-128: uint8_t += (int + int), i.e. modulo 256.
Decrypt(buf) ==
  LET o1 == offset1(buf)
      o2 == offset2(buf)
  IN  [i \in Cells |->
         IF i < DecryptLen
           THEN (buf[i] + KeyAt(o1 + i) + KeyAt(o2 + i)) % 256
           ELSE buf[i]]

KeyIndices(buf) ==
  {offset1(buf) + i : i \in 0..(DecryptLen - 1)}
    \cup {offset2(buf) + i : i \in 0..(DecryptLen - 1)}

Decoded(buf) == IF IsEncrypted(buf) THEN Decrypt(buf) ELSE buf

\* The 16 values written after "Current State: ".
StateOf(buf) == [i \in 1..StateLen |-> buf[i - 1]]

\* faceNames indexed by the nibble itself.
FaceIndex_NoMinusOne(buf) == getNibble(buf, 32)

\* faceNames[lastMoveFace-1], as a 0-based index.
FaceIndex(buf) == getNibble(buf, 32) - 1

DirectionName(buf) ==
  IF getNibble(buf, 33) = 1 THEN "Clockwise" ELSE "Anti-Clockwise"

\* memcmp over one byte too few.
IsSolution_Short(buf) == \A i \in 0..(StateLen - 2) : buf[i] = solution[i + 1]

\* memcmp(pData, solution, 16) == 0
IsSolution(buf) == \A i \in 0..(StateLen - 1) : buf[i] = solution[i + 1]

\* The highest index of pData a call touches: byte 18 always, byte 19 (read
\* and written) when the marker is seen.
LastTouched(buf) == IF IsEncrypted(buf) THEN DecryptLen - 1 ELSE 18

NoCall ==
  [state |-> << >>, face |-> "none", dir |-> "none", solved |-> "none"]

ZeroBuf == [i \in Cells |-> 0]

\* `sent` of a notification that is not the obfuscation of a named message.
Raw == [obfuscated |-> FALSE, state |-> << >>]

(***************************************************************************)
(* The cube: the notifications it sends.                                   *)
(***************************************************************************)
Mk(S, b16, b17, b18, b19) ==
  [i \in 0..19 |->
     IF i < StateLen THEN S[i + 1]
     ELSE IF i = 16 THEN b16
     ELSE IF i = 17 THEN b17
     ELSE IF i = 18 THEN b18
     ELSE b19]

\* The obfuscation described in the comment of lines 109-112: the cube
\* picks two offsets, subtracts the two key windows from the plain message
\* and sends the marker and the offsets in bytes 18 and 19.
Obfuscate(plain, o1, o2) ==
  [i \in 0..19 |->
     IF i = 18 THEN EncryptedMarker
     ELSE IF i = 19 THEN o1 * 16 + o2
     ELSE (plain[i] + 512 - KeyAt(o1 + i) - KeyAt(o2 + i)) % 256]

Pow2(k) == IF k = 0 THEN 1 ELSE IF k = 1 THEN 2 ELSE IF k = 2 THEN 4
           ELSE IF k = 3 THEN 8 ELSE IF k = 4 THEN 16 ELSE IF k = 5 THEN 32
           ELSE IF k = 6 THEN 64 ELSE 128

FlipBit(b, k) == IF (b \div Pow2(k)) % 2 = 1 THEN b - Pow2(k) ELSE b + Pow2(k)

\* buf with bit k of byte i flipped.
Flip(buf, i, k) == [buf EXCEPT ![i] = FlipBit(buf[i], k)]

Sample(n) == [i \in 1..StateLen |-> (n * 89 + i * 37) % 256]
Samples == {Sample(n) : n \in 1..NumSamples}

FlipPlaces == (0..(StateLen - 1)) \X (0..7)

\* The two obfuscated notifications quoted at line 112.
SourceExample1 ==
  << 112, 111, 105, 54, 177, 237, 209, 181, 224, 2, 100, 208, 153, 164,
     232, 161, 157, 62, 167, 241 >>
SourceExample2 ==
  << 217, 246, 119, 114, 195, 233, 165, 234, 110, 132, 68, 122, 187, 82,
     113, 86, 249, 220, 167, 5 >>
FromSeq(s) == [i \in 0..19 |-> s[i + 1]]

PlainSolved == Mk(solution, 17, 65, 65, 65)

\* Plain messages the cube sends as they are.
PlainMessages ==
  {PlainSolved}
    \cup {Flip(PlainSolved, f[1], f[2]) : f \in FlipPlaces}
    \cup {Mk(Sample(1), b16, 65, 65, 65) : b16 \in Byte}
    \cup {Mk(solution, b16, 65, 65, 65) : b16 \in Byte}
    \cup {Mk(S, 17, b17, b18, b19) :
            S \in Samples, b17 \in {65, 167}, b18 \in {0, 166, 168, 255},
            b19 \in {0, 241}}

\* Plain messages the cube obfuscates, with the offsets it picks.
ObfuscatedMessages ==
  {<<PlainSolved, o \div 16, o % 16>> : o \in Byte}
    \cup {<<Mk(S, 99, 65, 65, 65), o \div 16, o % 16>> :
            S \in Samples, o \in Byte}
    \cup {<<Mk(Sample(1), b16, 65, 65, 65), 0, 5>> : b16 \in Byte}
    \cup {<<Mk(solution, b16, 65, 65, 65), 15, 1>> : b16 \in {1, 113}}

\* Notifications whose bytes carry the marker without being the obfuscation
\* of anything the model names: the solved pattern in the clear with byte 18
\* equal to the marker, the two notifications quoted in the source, and the
\* bit flips of the first of them.
MarkedMessages ==
  {Mk(solution, 17, 65, EncryptedMarker, b19) : b19 \in Byte}
    \cup {FromSeq(SourceExample1), FromSeq(SourceExample2)}
    \cup {Flip(FromSeq(SourceExample1), f[1], f[2]) : f \in FlipPlaces}

\* Messages delivered with a length other than 20.
OddLengthMessages ==
  {PlainSolved, Mk(Sample(1), 17, 65, 65, 65), FromSeq(SourceExample1),
   Obfuscate(Mk(Sample(1), 17, 65, 65, 65), 3, 12)}

\* The buffer of a notification of `len` bytes taken from a 20-byte message:
\* cells past the end hold `g`, the memory that follows the buffer.
Buffer(msg, len, g) ==
  [i \in Cells |-> IF i < len /\ i < 20 THEN msg[i] ELSE g]

Deliveries ==
  {[buf |-> Buffer(m, 20, 0), len |-> 20, sent |-> Raw] :
     m \in PlainMessages \cup MarkedMessages}
    \cup {[buf |-> Buffer(Obfuscate(t[1], t[2], t[3]), 20, 0), len |-> 20,
           sent |-> [obfuscated |-> TRUE, state |-> StateOf(t[1])]] :
            t \in ObfuscatedMessages}
    \cup {[buf |-> Buffer(m, len, g), len |-> len, sent |-> Raw] :
            m \in OddLengthMessages, len \in (MinLen..MaxLen) \ {20},
            g \in {0, 241}}

(***************************************************************************)
(* Initial state: the globals as initialised at lines 34-36; no pin is     *)
(* configured and no notification has been handled.                        *)
(***************************************************************************)
Booted ==
  /\ sys = "boot"
  /\ relayPin = "UNSET"
  /\ deviceFound = FALSE
  /\ connected = FALSE
  /\ registered = FALSE
  /\ hpc = "idle"
  /\ relayWrites = << >>
  /\ again = FALSE
  /\ sent = Raw
  /\ arg = ZeroBuf
  /\ length = 0
  /\ pData = ZeroBuf
  /\ isEncrypted = FALSE
  /\ keyReads = {}
  /\ faceIndex = 0
  /\ serial = NoCall
  /\ prev = NoCall

Init ==
  /\ Booted
  /\ cubeGatt \in {"noService", "noCharacteristic", "noNotify", "ready"}

(***************************************************************************)
(* setup() and loop().                                                     *)
(***************************************************************************)
Setup ==
  /\ sys = "boot"
  /\ sys' = "loop"
  /\ relayPin' = "LOW"
  /\ UNCHANGED << relayWrites, connVars, cubeGatt, hpc, callVars >>

\* scanForDevices(): the scan ends with or without onResult having seen the
\* cube's address.
ScanForDevices ==
  /\ sys = "loop"
  /\ ~deviceFound
  /\ \E seen \in BOOLEAN : deviceFound' = seen
  /\ sys' = "delay"
  /\ UNCHANGED << relayPin, relayWrites, connected, registered, cubeGatt, hpc,
                  callVars >>

\* connectToServer(), called from loop() when deviceFound and !connected.
\* connect() brings the link up (onConnect sets connected) or does not; the
\* three early returns leave connected as onConnect set it.  After
\* registerForNotify the function runs off its end without a return
\* statement: the call returns, or the task faults.
ConnectToServer ==
  /\ sys = "loop"
  /\ deviceFound
  /\ ~connected
  /\ \E link \in BOOLEAN :
       /\ connected' = link
       /\ IF link /\ cubeGatt = "ready"
            THEN /\ registered' = TRUE
                 /\ \E faults \in BOOLEAN :
                      sys' = IF faults THEN "panic" ELSE "delay"
            ELSE /\ registered' = registered
                 /\ sys' = "delay"
  /\ UNCHANGED << relayPin, relayWrites, deviceFound, cubeGatt, hpc,
                  callVars >>

\* loop() when deviceFound and connected: nothing but the delay.
LoopIdle ==
  /\ sys = "loop"
  /\ deviceFound
  /\ connected
  /\ sys' = "delay"
  /\ UNCHANGED << relayPin, relayWrites, connVars, cubeGatt, hpc, callVars >>

\* delay(1000) ends and loop() is entered again.
Delay ==
  /\ sys = "delay"
  /\ sys' = "loop"
  /\ UNCHANGED << relayPin, relayWrites, connVars, cubeGatt, hpc, callVars >>

\* ClientCallbacks::onDisconnect.  The callbacks of the Bluetooth task run
\* one at a time, so not while notifyCallback is running.
OnDisconnect ==
  /\ sys \in {"loop", "delay"}
  /\ connected
  /\ hpc = "idle"
  /\ connected' = FALSE
  /\ registered' = FALSE
  /\ UNCHANGED << sys, relayPin, relayWrites, deviceFound, cubeGatt, hpc,
                  callVars >>

\* The cube starts to offer the service with a characteristic that notifies.
CubeBecomesReady ==
  /\ cubeGatt # "ready"
  /\ cubeGatt' = "ready"
  /\ UNCHANGED << sys, relayPin, relayWrites, connVars, hpc, callVars >>

\* The panic handler restarts the chip.
Reboot ==
  /\ sys = "panic"
  /\ sys' = "boot"
  /\ relayPin' = "UNSET"
  /\ deviceFound' = FALSE
  /\ connected' = FALSE
  /\ registered' = FALSE
  /\ hpc' = "idle"
  /\ relayWrites' = << >>
  /\ again' = FALSE
  /\ sent' = Raw
  /\ arg' = ZeroBuf
  /\ length' = 0
  /\ pData' = ZeroBuf
  /\ isEncrypted' = FALSE
  /\ keyReads' = {}
  /\ faceIndex' = 0
  /\ serial' = NoCall
  /\ prev' = NoCall
  /\ UNCHANGED cubeGatt

(***************************************************************************)
(* notifyCallback.                                                         *)
(***************************************************************************)
\* The call writes pData[19] past a buffer shorter than 20 bytes.
WritesPast(buf, len) == LastTouched(buf) >= len

\* faceNames[lastMoveFace-1] is outside the six entries.
WildFace(buf) == FaceIndex(Decoded(buf)) \notin 0..(Len(faceNames) - 1)

\* What a read of a pointer from outside faceNames can hand to Serial.print.
WildNames == {"?", "Front", "Back"}

\* One call on buffer `buf` with length `len`, up to its return or, when the
\* piece state is the solution, up to delay(100).  `garbage` and `faults`
\* choose the outcome of a call that reads or writes outside an object: the
\* task goes on (printing `garbage` for a face name read outside faceNames)
\* or it faults, at the first such access.
Handle(buf, len, garbage, faults) ==
  LET enc   == IsEncrypted(buf)
      dec   == Decoded(buf)
      idx   == FaceIndex(dec)
      wild  == WildFace(buf)
      early == WritesPast(buf, len) /\ faults
      late  == ~early /\ wild /\ faults
      sol   == IsSolution(dec)
  IN  /\ arg' = buf
      /\ length' = len
      /\ isEncrypted' = enc
      /\ keyReads' = IF enc THEN KeyIndices(buf) ELSE {}
      /\ pData' = dec
      /\ faceIndex' = IF early THEN 0 ELSE idx
      /\ serial' =
           IF early THEN NoCall
           ELSE [state  |-> StateOf(dec),
                 face   |-> IF late THEN "none"
                            ELSE IF wild THEN garbage
                            ELSE faceNames[idx + 1],
                 dir    |-> IF late THEN "none" ELSE DirectionName(dec),
                 solved |-> IF late THEN "none"
                            ELSE IF sol THEN "yes" ELSE "no"]
      /\ IF early \/ late
           THEN /\ sys' = "panic"
                /\ hpc' = "faulted"
                /\ UNCHANGED << relayPin, relayWrites >>
           ELSE /\ sys' = sys
                /\ relayPin' = IF sol THEN "HIGH" ELSE relayPin
                /\ relayWrites' = IF sol THEN << "HIGH" >> ELSE << >>
                /\ hpc' = IF sol THEN "pulse" ELSE "return"

\* The outcomes of one call.
Call(buf, len) ==
  \E garbage \in IF WildFace(buf) THEN WildNames ELSE {"?"},
     faults \in IF WildFace(buf) \/ WritesPast(buf, len)
                  THEN BOOLEAN ELSE {FALSE} :
    Handle(buf, len, garbage, faults)

\* A notification arrives on the live link.
NotifyCallback ==
  /\ sys \in {"loop", "delay"}
  /\ connected
  /\ registered
  /\ hpc = "idle"
  /\ \E d \in Deliveries :
       /\ Call(d.buf, d.len)
       /\ sent' = d.sent
  /\ again' = FALSE
  /\ prev' = NoCall
  /\ UNCHANGED << connVars, cubeGatt >>

\* delay(100) ends: digitalWrite(relayPin, LOW).
RelayOff ==
  /\ sys \in {"loop", "delay"}
  /\ hpc = "pulse"
  /\ relayPin' = "LOW"
  /\ relayWrites' = Append(relayWrites, "LOW")
  /\ hpc' = "return"
  /\ UNCHANGED << sys, connVars, cubeGatt, callVars >>

\* The callback returns: its buffer and its locals are gone.
Return ==
  /\ sys \in {"loop", "delay"}
  /\ hpc = "return"
  /\ hpc' = "idle"
  /\ again' = FALSE
  /\ sent' = Raw
  /\ arg' = ZeroBuf
  /\ length' = 0
  /\ pData' = ZeroBuf
  /\ isEncrypted' = FALSE
  /\ keyReads' = {}
  /\ faceIndex' = 0
  /\ serial' = NoCall
  /\ prev' = NoCall
  /\ relayWrites' = << >>
  /\ UNCHANGED << sys, relayPin, connVars, cubeGatt >>

\* Instead of letting go of the buffer, the caller hands it to notifyCallback
\* once more, as the call before left it.
NotifyAgain ==
  /\ sys \in {"loop", "delay"}
  /\ connected
  /\ registered
  /\ hpc = "return"
  /\ Call(pData, length)
  /\ sent' = Raw
  /\ again' = TRUE
  /\ prev' = serial
  /\ UNCHANGED << connVars, cubeGatt >>

Next ==
  \/ Setup
  \/ ScanForDevices
  \/ ConnectToServer
  \/ LoopIdle
  \/ Delay
  \/ OnDisconnect
  \/ CubeBecomesReady
  \/ Reboot
  \/ NotifyCallback
  \/ RelayOff
  \/ Return
  \/ NotifyAgain

Spec == Init /\ [][Next]_vars

\* The scheduling of the sketch: loop() runs for ever, a delay ends, a call
\* of notifyCallback returns, the panic handler restarts the chip.  The cube
\* of claim C10 comes to offer its service.  Nothing makes the cube send,
\* or the link drop.
Fairness ==
  /\ WF_vars(Setup \/ ScanForDevices \/ ConnectToServer \/ LoopIdle \/ Delay)
  /\ WF_vars(RelayOff)
  /\ WF_vars(Return)
  /\ WF_vars(Reboot)
  /\ WF_vars(CubeBecomesReady)

LiveSpec == Init /\ [][Next]_vars /\ Fairness

(***************************************************************************)
(* The claims.                                                             *)
(***************************************************************************)
\* notifyCallback has run on arg: to its return, into its delay, or into a
\* fault.
Handled == hpc \in {"pulse", "return", "faulted"}

\* notifyCallback has run on arg without faulting.
Completed == hpc \in {"pulse", "return"}

\* C1: a call leaves nothing changed for the next one, the bytes of the
\* payload included: the buffer a call returns is the buffer it was handed,
\* and a call on the same buffer again writes what the call before wrote.
C1_CallsLeaveNoTrace ==
  /\ (Handled => pData = arg)
  /\ (Handled /\ again => serial = prev)

\* C2: for a 20-byte payload whose de-obfuscated face nibble is 0 or more
\* than 6, no face name is looked up outside the six entries and no move is
\* reported, while the piece state and the solved flag are still produced.
C2_UnrecognizedFaceReported ==
  (Handled /\ length = 20 /\ (pData[16] \div 16) \notin 1..6)
    => /\ faceIndex \in 0..5
       /\ serial.face = "none"
       /\ serial.dir = "none"
       /\ serial.state = StateOf(pData)
       /\ serial.solved \in {"yes", "no"}

\* C3: for an input whose length is not 20, nothing is decoded: no byte is
\* read or rewritten, and no piece state, move or solved flag is produced.
C3_InvalidLengthRejected ==
  (Handled /\ length # 20)
    => /\ serial = NoCall
       /\ keyReads = {}
       /\ pData = arg
       /\ relayWrites = << >>
       /\ sys # "panic"

\* C4: a message obfuscated with any two offsets decodes to the piece state
\* the message carried.
C4_ObfuscationReversed ==
  (Handled /\ sent.obfuscated)
    => /\ serial.state = sent.state
       /\ StateOf(pData) = sent.state

C4_Witness ==
  /\ hpc = "return"
  /\ sent.obfuscated
  /\ sent.state = Sample(2)
  /\ arg[19] = 241
  /\ arg[18] = EncryptedMarker
  /\ serial.state = Sample(2)

\* The 16 bytes which, received with the bytes 16-19 of buf, decode to the
\* solved pattern.
SolvedSource(buf) ==
  [i \in 1..StateLen |->
     IF buf[18] = 167
       THEN (solution[i] + 512 - KeyAt((buf[19] \div 16) + i - 1)
               - KeyAt((buf[19] % 16) + i - 1)) % 256
       ELSE solution[i]]

OneBitApart(S, T) ==
  \E f \in FlipPlaces :
    S = [T EXCEPT ![f[1] + 1] = FlipBit(T[f[1] + 1], f[2])]

\* C5, as stated: a 20-byte payload whose bytes 0-15 are the solved pattern
\* is reported solved whatever its bytes 16-19 (with a valid move byte), and
\* a payload one bit away from it in bytes 0-15 is reported not solved.
C5_PatternBytesSolved ==
  (Completed /\ length = 20 /\ (arg[16] \div 16) \in 1..6
     /\ faceIndex \in 0..5)
    => /\ (StateOf(arg) = solution => serial.solved = "yes")
       /\ (OneBitApart(StateOf(arg), solution) => serial.solved = "no")

\* C5, amended: a 20-byte payload whose bytes 0-15 are the solved pattern
\* after de-obfuscation, with a valid de-obfuscated move byte, is reported
\* solved, and so pulses the relay; with the same bytes 16-19, a payload one
\* bit away from it in bytes 0-15 is reported not solved; the solved pattern
\* received in the clear with the marker in byte 18 is reported not solved.
C5_DecodedPatternSolved ==
  (Completed /\ length = 20 /\ faceIndex \in 0..5)
    => /\ (StateOf(arg) = SolvedSource(arg)
             => serial.solved = "yes" /\ relayWrites # << >>)
       /\ (OneBitApart(StateOf(arg), SolvedSource(arg))
             => serial.solved = "no" /\ relayWrites = << >>)
       /\ (StateOf(arg) = solution /\ arg[18] = 167
             => serial.solved = "no")

C5_Witness ==
  /\ hpc = "return"
  /\ length = 20
  /\ arg[18] = 167
  /\ StateOf(arg) = SolvedSource(arg)
  /\ serial.solved = "yes"
  /\ relayWrites = << "HIGH", "LOW" >>

\* C6: a 20-byte payload whose byte 18 is not the marker is left as it was,
\* all 20 bytes, and its bytes 0-15 are the piece state.
C6_PlainBufferUntouched ==
  (Handled /\ length = 20 /\ arg[18] # 167)
    => /\ pData = arg
       /\ serial.state = StateOf(arg)

C6_Witness ==
  /\ hpc = "return"
  /\ length = 20
  /\ arg[18] = 166
  /\ arg[17] = 167
  /\ pData = arg
  /\ serial.state = Sample(1)

ExpectedFace(f) ==
  IF f = 1 THEN "Front" ELSE IF f = 2 THEN "Bottom" ELSE IF f = 3 THEN "Right"
  ELSE IF f = 4 THEN "Top" ELSE IF f = 5 THEN "Left" ELSE "Back"

\* C7: for a canonical 20-byte payload (as received without the marker, or
\* as de-obfuscated) whose byte 16 has high nibble f in 1..6 and low nibble
\* d, the move reported is the f-th face, clockwise exactly when d = 1.
C7_MoveDecoded ==
  (Completed /\ length = 20 /\ (pData[16] \div 16) \in 1..6)
    => /\ serial.face = ExpectedFace(pData[16] \div 16)
       /\ serial.dir = IF pData[16] % 16 = 1 THEN "Clockwise"
                       ELSE "Anti-Clockwise"
       /\ (~isEncrypted => pData[16] = arg[16])

C7_Witness ==
  /\ hpc = "return"
  /\ length = 20
  /\ ~isEncrypted
  /\ arg[16] = 99
  /\ serial.face = "Back"
  /\ serial.dir = "Anti-Clockwise"

\* C8: every index of the key read while de-obfuscating a 20-byte payload
\* lies in 0..34, inside the 36-entry table, and the call goes on to write
\* the piece state.
C8_KeyReadsInBounds ==
  /\ keyReads \subseteq 0..34
  /\ keyReads \subseteq 0..(Len(decryptionKey) - 1)
  /\ (Handled /\ length = 20 /\ arg[18] = 167)
       => /\ keyReads =
               {(arg[19] \div 16) + i : i \in 0..19}
                 \cup {(arg[19] % 16) + i : i \in 0..19}
          /\ serial.state = StateOf(pData)

C8_Witness ==
  /\ hpc = "return"
  /\ length = 20
  /\ arg[18] = 167
  /\ arg[19] = 240
  /\ 34 \in keyReads
  /\ 0 \in keyReads

\* C9: after setup, a call drives the relay pin HIGH exactly when its
\* de-obfuscated bytes 0-15 are the solved pattern, and drives it LOW again
\* before it ends; the pin is LOW whenever no call is running.
C9_RelayFollowsSolved ==
  /\ (sys \in {"loop", "delay"} /\ hpc = "idle" => relayPin = "LOW")
  /\ (relayPin = "HIGH" => hpc = "pulse" /\ StateOf(pData) = solution)
  /\ (hpc \in {"return", "faulted"}
        => (relayWrites = << "HIGH", "LOW" >> <=> StateOf(pData) = solution))

\* C10: the flag connected does not stay set for ever with no notification
\* callback registered: loop() calls connectToServer again until it is.
C10_RegistersEventually ==
  (connected /\ ~registered) ~> (~connected \/ registered)


=============================================================================
